---- MODULE Spec2Model ----
(***************************************************************************)
(* weatherio: the forecast service of src/script.py (the module the tests  *)
(* import; src/main.py is its earlier iteration).                          *)
(*                                                                         *)
(*   OpenMeteoRepo.fetch_forecasts   the batched, retrying upstream fetch  *)
(*   OpenMeteoRepo.fetch_current     the single-attempt current snapshot   *)
(*   refresh_forecasts               one pass over the cities table        *)
(*   refresh_task                    the periodic loop around it           *)
(*   lifespan                        cancels the loop on shutdown          *)
(*   CityRepo.add_city               registration with an initial fetch    *)
(*   CityRepo.get_forecast_json      the read of a cached series           *)
(*   city_weather                    the hour lookup in a cached series    *)
(*                                                                         *)
(* Every await of the code is one step of the model.  Time is in seconds,  *)
(* times of day are <<hour, minute>>.                                      *)
(***************************************************************************)
EXTENDS Integers, Sequences, FiniteSets, TLC

\* ------------------------------------------------------------------ bounds
\* Largest number of rows of the cities table at start-up.
MaxCities == 5
\* Rows per cursor.fetchmany call.  The code asks for 100; the model pages the
\* same way with a small page so that several pages fit in MaxCities rows.
PageSize == 2
\* Cycles of refresh_task that are started.
MaxCycles == 2
\* Longest coordinate list handed to fetch_forecasts on its own (SpecFetch).
MaxCoords == 3
\* Rows that start without a cached forecast (registered while the upstream
\* was unavailable, script.py 311-318).
MaxUncached == 1
\* Callers that register a city at the same time (SpecRegister).
MaxRegistrations == 2

\* ------------------------------------------------------- program constants
\* retries, wait_for = 3, 10
Retries == 3
WaitFor == 10
\* timedelta(minutes=15).total_seconds()
Period == 900

\* Durations of one client.get: immediate, or slow (httpx's timeout bounds each
\* read, not the whole exchange).
Latencies == {0, 600}

\* What one client.get can end in: a 2xx response, a 4xx response, a 5xx
\* response, or httpx.ConnectError raised before any response.
Outcomes == {"ok", "client_error", "server_error", "connect_error"}

NoForecast == [kind |-> "null"]

Max(a, b) == IF a >= b THEN a ELSE b
Min(a, b) == IF a <= b THEN a ELSE b

Take(s, n) == SubSeq(s, 1, Min(n, Len(s)))
Drop(s, n) == SubSeq(s, Min(n, Len(s)) + 1, Len(s))

VARIABLES
    cities,       \* rows of table cities, in rowid order: [id, name, lat, lon, forecast]
    outage,       \* environment: coordinates the upstream answers with 5xx
    flaky,        \* environment: whether the other requests may fail as well
    clock,        \* environment: the time of day the fetches are made at
    malformed,    \* environment: whether the upstream leaves out the last object
    pc,           \* where refresh_task is suspended
    cycle,        \* cycles started so far
    cursor,       \* rows still to be fetched from refresh_forecasts' cursor
    ids,          \* ids of the current page
    coords,       \* coords of the current page
    forecasts,    \* what fetch_forecasts returned for the current page
    wi,           \* position in zip(ids, forecasts) of the next UPDATE
    exc,          \* exception that ended refresh_forecasts in this cycle
    elapsed,      \* now - start_time of the current cycle
    sleep_time,   \* sleep_time of refresh_task
    fpc,          \* fetch_forecasts: idle, request, backoff, returned, raised
    coordinates,  \* fetch_forecasts: its argument
    attempt,      \* fetch_forecasts: the loop variable
    requests,     \* fetch_forecasts: client.get calls made by this call
    waits,        \* fetch_forecasts: asyncio.sleep(wait_for) calls made
    outcomes,     \* history: how each client.get of a call made on its own ended
    result,       \* fetch_forecasts: the value returned
    error,        \* fetch_forecasts: the exception raised
    snapshot,     \* history: the table as the cycle's SELECT saw it
    pageResult,   \* history: per page attempted in this cycle, ok / unavailable
    hreq,         \* city_weather: the request being served and its response
    prev,         \* history: the request the client made before this one
    cur,          \* fetch_current: the call being served
    regs          \* add_city: the registrations in progress, one per caller, and
                  \* history: the table each one's commit made durable

envVars     == <<outage, flaky, clock, malformed>>
refreshVars == <<pc, cycle, cursor, ids, coords, forecasts, wi, exc, sleep_time,
                 snapshot, pageResult>>
fetchVars   == <<fpc, coordinates, attempt, requests, waits, outcomes, result, error>>
handlerVars == <<hreq, prev, cur, regs>>
vars        == <<cities, envVars, refreshVars, fetchVars, elapsed, handlerVars>>

\* No request is being served and no registration is in progress.
IdleRequest == [hpc |-> "idle"]
IdleCurrent == [cpc |-> "idle"]
HandlersIdle ==
    /\ hreq = IdleRequest
    /\ prev = IdleRequest
    /\ cur = IdleCurrent
    /\ regs = <<>>

\* ----------------------------------------------------------- time of day
\* The series asked for ends timedelta(hours=23) after the hour it starts at.
HorizonLast == 23
\* Hours of a day; datetime.hour is the timestamp's hour modulo it.
HoursPerDay == 24
Hours == 0..(HoursPerDay - 1)

\* Minutes of the requested times: on the hour, and both sides of the
\* `minute <= 30` test.
Minutes == {0, 30, 31}
\* The `time` query parameter, as <<hour, minute>>.
TimesOfDay == Hours \X Minutes

\* Readings of datetime.now().time() in a request, as <<hour, minute>> (the
\* seconds are dropped): before, between and after the requested times.
NowTimes == {<<0, 0>>, <<9, 0>>, <<10, 5>>, <<12, 15>>, <<23, 45>>}

\* `time > datetime.now().time()`
Later(time, now) ==
    \/ time[1] > now[1]
    \/ time[1] = now[1] /\ time[2] > now[2]

\* A timestamp of the series is a count of hours since the midnight before the
\* fetch; datetime.fromisoformat(...).hour is its hour of the day.
HourOf(stamp) == stamp % HoursPerDay

\* class WeatherParameter
Parameters == {"temperature_2m", "relative_humidity_2m", "precipitation",
               "wind_speed_10m", "surface_pressure"}

\* The `include` query parameter: one parameter, or all of them.
Includes == {{"temperature_2m"}, Parameters}

\* `start_datetime = datetime.now().replace(minute=0, second=0, microsecond=0)`
StartHour(now) == now[1]
\* Variant: a window one hour shorter.
EndHourShort(start) == start + HorizonLast - 1

\* `start_datetime + timedelta(hours=23)`
EndHour(start) == start + HorizonLast

\* The "hourly" object of the provider's answer for the window start_hour ..
\* end_hour, both included: the timestamps and, per parameter asked for, one
\* value per timestamp.  A value is told apart by its parameter and timestamp.
\* The object is a function of its window, and a forecast is kept as its window.
Hourly(start_hour, end_hour) ==
    [k \in {"time"} \cup Parameters |->
        [i \in 1..(end_hour - start_hour + 1) |->
            IF k = "time" THEN start_hour + i - 1
                          ELSE [of |-> k, at |-> start_hour + i - 1]]]

\* forecast["hourly"]
HourlyOf(forecast) == Hourly(forecast.start_hour, forecast.end_hour)

\* ------------------------------------------------------------ the upstream
\* One JSON object of the provider's answer, for one coordinate, to a request
\* for the window that starts at the hour of the clock.  stamp tells the
\* answers of different cycles apart.
ForecastObject(lat, lon, stamp) ==
    [kind |-> "object", latitude |-> lat, longitude |-> lon, stamp |-> stamp,
     start_hour |-> StartHour(clock), end_hour |-> EndHour(StartHour(clock))]

\* An answer that is one object short: a list of the objects of all the
\* coordinates but the last.
ShortAnswer(params, stamp) ==
    [kind  |-> "list",
     items |-> [i \in 1..(Len(params.latitude) - 1) |->
                   ForecastObject(params.latitude[i], params.longitude[i], stamp)]]

\* The provider answers a request for one coordinate with a single object and a
\* request for several with a list, one object per coordinate, in order; a
\* malformed answer is one object short.
UpstreamAnswer(params, stamp) ==
    IF malformed
    THEN ShortAnswer(params, stamp)
    ELSE IF Len(params.latitude) = 1
    THEN ForecastObject(params.latitude[1], params.longitude[1], stamp)
    ELSE [kind  |-> "list",
          items |-> [i \in 1..Len(params.latitude) |->
                        ForecastObject(params.latitude[i], params.longitude[i], stamp)]]

\* The outcomes the environment allows for a request.
AllowedOutcomes(params) ==
    IF \E i \in 1..Len(params.latitude) :
           <<params.latitude[i], params.longitude[i]>> \in outage
    THEN {"server_error"}
    ELSE IF flaky THEN Outcomes ELSE {"ok"}

\* ------------------------------------------- OpenMeteoRepo.fetch_forecasts
\* Variant: the empty list is not short-circuited.
NotCoordinatesNever(c) == FALSE

\* `if not coordinates`
NotCoordinates(c) == c = <<>>

\* lats = ",".join(str(c[0]) ...), lons = ",".join(str(c[1]) ...)
Lats(c) == [i \in 1..Len(c) |-> c[i][1]]
Lons(c) == [i \in 1..Len(c) |-> c[i][2]]
RequestParams(c) == [latitude |-> Lats(c), longitude |-> Lons(c)]

\* The exception one client.get / raise_for_status pair ends in: client.get
\* raises httpx.ConnectError when no connection is made, raise_for_status
\* raises httpx.HTTPStatusError on a 4xx and on a 5xx response alike.
RaisedBy(o) ==
    CASE o = "connect_error"                    -> "ConnectError"
      [] o \in {"client_error", "server_error"} -> "HTTPStatusError"
      [] OTHER                                  -> "none"

\* `except httpx.HTTPStatusError`
ExceptCatches(e) == e = "HTTPStatusError"

\* Variant: the comparison is off by one upwards, so no attempt is the last.
IsLastAttemptLate(a) == a = Retries

\* Variant: the comparison is off by one downwards, giving up one attempt early.
IsLastAttemptEarly(a) == a = Retries - 2

\* `if attempt == retries - 1`
IsLastAttempt(a) == a = Retries - 1

\* Variant: a single object is not wrapped into a list.
WrapResponseListOnly(data) == IF data.kind = "list" THEN data.items ELSE <<>>

\* `return data if isinstance(data, list) else [data]`
WrapResponse(data) == IF data.kind = "list" THEN data.items ELSE <<data>>

\* The call itself, up to its first await.
FetchCall(c) ==
    /\ coordinates' = c
    /\ attempt' = 0
    /\ requests' = 0
    /\ waits' = 0
    /\ outcomes' = <<>>
    /\ result' = <<>>
    /\ error' = "none"
    /\ fpc' = IF NotCoordinates(c) THEN "returned" ELSE "request"

\* `resp = await client.get(...)` ends with outcome o after d seconds, and the
\* code runs on to the return, the raise or the next await.
FetchAttempt(o, d) ==
    /\ fpc = "request"
    /\ o \in AllowedOutcomes(RequestParams(coordinates))
    /\ requests' = requests + 1
    /\ elapsed' = elapsed + d
    /\ IF RaisedBy(o) = "none"
       THEN /\ fpc' = "returned"
            /\ result' = WrapResponse(UpstreamAnswer(RequestParams(coordinates), cycle))
            /\ error' = error
       ELSE IF ExceptCatches(RaisedBy(o))
       THEN IF IsLastAttempt(attempt)
            THEN /\ fpc' = "raised"
                 /\ error' = "OpenMeteoUnnacessableError"
                 /\ result' = result
            ELSE /\ fpc' = "backoff"
                 /\ UNCHANGED <<result, error>>
       ELSE /\ fpc' = "raised"
            /\ error' = RaisedBy(o)
            /\ result' = result
    /\ UNCHANGED <<coordinates, attempt, waits>>

\* `await asyncio.sleep(wait_for)` ends and the for loop goes on; a loop that
\* runs out of attempts leaves the function without a return value.
FetchBackoff ==
    /\ fpc = "backoff"
    /\ waits' = waits + 1
    /\ elapsed' = elapsed + WaitFor
    /\ attempt' = attempt + 1
    /\ fpc' = IF attempt + 1 < Retries THEN "request" ELSE "returned_none"
    /\ UNCHANGED <<coordinates, requests, result, error>>

\* ------------------------------------------------------- refresh_forecasts
\* `SELECT id, latitude, longitude FROM cities`
SelectCities(table) == [i \in 1..Len(table) |-> <<table[i].id, table[i].lat, table[i].lon>>]

\* Variant: the UPDATE has no WHERE clause.
UpdateForecastEveryRow(table, id, f) ==
    [i \in 1..Len(table) |-> [table[i] EXCEPT !.forecast = f]]

\* Variant: the answer is merged into the series the row holds, key by key,
\* instead of replacing it.
UpdateForecastMerged(table, id, f) ==
    [i \in 1..Len(table) |->
        IF table[i].id = id
        THEN [table[i] EXCEPT !.forecast =
                 IF table[i].forecast.kind = "null" THEN f ELSE [f EXCEPT !.kind = "merged"]]
        ELSE table[i]]

\* `UPDATE cities SET forecast_json = ? WHERE id = ?`
UpdateForecast(table, id, f) ==
    [i \in 1..Len(table) |->
        IF table[i].id = id THEN [table[i] EXCEPT !.forecast = f] ELSE table[i]]

\* Length of zip(ids, forecasts)
ZipLen(a, b) == Min(Len(a), Len(b))

\* What a cursor still yields after it has executed the UPDATE: the cursor of
\* lines 214-218 is the cursor of line 228, and a cursor holds the result set of
\* the last statement it executed only.
CursorAfterUpdate(rest) == <<>>

\* Variant: the task catches BaseException.
TaskCatchesBaseException(e) == TRUE

\* Variant: the task catches the fetch's own error only.
TaskCatchesUnavailableOnly(e) == e = "OpenMeteoUnnacessableError"

\* `except Exception` of refresh_task
TaskCatches(e) == e # "CancelledError"

\* refresh_forecasts ends with exception e, in refresh_task's try.
EndsWith(e) ==
    /\ exc' = e
    /\ pc' = IF TaskCatches(e) THEN "end_cycle" ELSE "terminated"

\* The locals of a new call of refresh_forecasts; those of the call before it,
\* and of the fetch_forecasts calls it made, are gone.
NewFrame ==
    /\ cursor' = <<>>
    /\ ids' = <<>>
    /\ coords' = <<>>
    /\ forecasts' = <<>>
    /\ wi' = 1
    /\ fpc' = "idle"
    /\ coordinates' = <<>>
    /\ attempt' = 0
    /\ requests' = 0
    /\ waits' = 0
    /\ outcomes' = <<>>
    /\ result' = <<>>
    /\ error' = "none"

\* Top of `while True` in refresh_task: start_time is taken, refresh_forecasts
\* is entered and waits for its cursor.  The sleep_time of the turn before is
\* not read again: the turn assigns it before its own sleep.
StartCycle ==
    /\ pc = "loop"
    /\ cycle < MaxCycles
    /\ cycle' = cycle + 1
    /\ elapsed' = 0
    /\ exc' = "none"
    /\ pageResult' = <<>>
    /\ sleep_time' = 0
    /\ NewFrame
    /\ pc' = "select"
    /\ UNCHANGED <<cities, envVars, handlerVars, snapshot>>

\* `await cursor.execute("SELECT ...")`
ExecuteSelect ==
    /\ pc = "select"
    /\ cursor' = SelectCities(cities)
    /\ snapshot' = cities
    /\ pc' = "fetchmany"
    /\ UNCHANGED <<cities, envVars, handlerVars, cycle, ids, coords, forecasts, wi, exc, sleep_time,
                   pageResult, fetchVars, elapsed>>

\* `rows = await cursor.fetchmany(100)`; no rows ends refresh_forecasts, rows
\* become the page and fetch_forecasts is called for it.
FetchMany ==
    /\ pc = "fetchmany"
    /\ cursor' = Drop(cursor, PageSize)
    /\ LET rows == Take(cursor, PageSize) IN
       IF rows = <<>>
       THEN /\ pc' = "end_cycle"
            /\ UNCHANGED <<ids, coords, fetchVars>>
       ELSE /\ ids' = [i \in 1..Len(rows) |-> rows[i][1]]
            /\ coords' = [i \in 1..Len(rows) |-> <<rows[i][2], rows[i][3]>>]
            /\ FetchCall(coords')
            /\ pc' = "fetching"
    /\ UNCHANGED <<cities, envVars, handlerVars, cycle, forecasts, wi, exc, sleep_time, snapshot,
                   pageResult, elapsed>>

\* Variant: the except clause clears the series of the page it skips.
SkipPageCleared(table, page) ==
    [i \in 1..Len(table) |->
        IF \E j \in 1..Len(page) : page[j] = table[i].id
        THEN [table[i] EXCEPT !.forecast = NoForecast]
        ELSE table[i]]

\* `except OpenMeteoUnnacessableError as e: logging.error(...); continue`: no
\* statement is executed for the page.
SkipPage(table, page) == table

\* fetch_forecasts came back to refresh_forecasts: with a value the writes
\* start, OpenMeteoUnnacessableError is logged and the loop continues, any
\* other exception leaves refresh_forecasts.
AfterFetch ==
    CASE fpc' = "returned" ->
            /\ forecasts' = result'
            /\ wi' = 1
            /\ pc' = IF ZipLen(ids, result') = 0 THEN "commit" ELSE "update"
            /\ UNCHANGED <<cities, exc, pageResult>>
      [] fpc' = "returned_none" ->
            \* zip(ids, None) raises TypeError
            /\ EndsWith("TypeError")
            /\ UNCHANGED <<cities, forecasts, wi, pageResult>>
      [] fpc' = "raised" /\ error' = "OpenMeteoUnnacessableError" ->
            /\ cities' = SkipPage(cities, ids)
            /\ pageResult' = Append(pageResult, "unavailable")
            /\ pc' = "fetchmany"
            /\ UNCHANGED <<forecasts, wi, exc>>
      [] fpc' = "raised" /\ error' # "OpenMeteoUnnacessableError" ->
            /\ EndsWith(error')
            /\ UNCHANGED <<cities, forecasts, wi, pageResult>>
      [] OTHER ->
            /\ pc' = "fetching"
            /\ UNCHANGED <<cities, forecasts, wi, exc, pageResult>>

\* One client.get of the page's fetch ends.
RefreshAttempt ==
    /\ pc = "fetching"
    /\ \E o \in Outcomes, d \in Latencies : FetchAttempt(o, d)
    /\ AfterFetch
    /\ UNCHANGED <<envVars, handlerVars, cycle, cursor, ids, coords, sleep_time, snapshot,
                   outcomes>>

\* One backoff wait of the page's fetch ends.
RefreshBackoff ==
    /\ pc = "fetching"
    /\ FetchBackoff
    /\ AfterFetch
    /\ UNCHANGED <<envVars, handlerVars, cycle, cursor, ids, coords, sleep_time, snapshot,
                   outcomes>>

\* `await cursor.execute("UPDATE ...")` for the next pair of zip(ids, forecasts).
ExecuteUpdate ==
    /\ pc = "update"
    /\ cities' = UpdateForecast(cities, ids[wi], forecasts[wi])
    /\ cursor' = CursorAfterUpdate(cursor)
    /\ wi' = wi + 1
    /\ pc' = IF wi + 1 > ZipLen(ids, forecasts) THEN "commit" ELSE "update"
    /\ UNCHANGED <<envVars, handlerVars, cycle, ids, coords, forecasts, exc, sleep_time, snapshot,
                   pageResult, fetchVars, elapsed>>

\* `await db.commit()`, then the next turn of the page loop.
Commit ==
    /\ pc = "commit"
    /\ pageResult' = Append(pageResult, "ok")
    /\ pc' = "fetchmany"
    /\ UNCHANGED <<cities, envVars, handlerVars, cycle, cursor, ids, coords, forecasts, wi, exc,
                   sleep_time, snapshot, fetchVars, elapsed>>

\* The UPDATE or the commit raises sqlite3.OperationalError instead.
StorageFails ==
    /\ pc \in {"update", "commit"}
    /\ EndsWith("OperationalError")
    /\ UNCHANGED <<cities, envVars, handlerVars, cycle, cursor, ids, coords, forecasts, wi, sleep_time,
                   snapshot, pageResult, fetchVars, elapsed>>

\* ------------------------------------------------------------ refresh_task
\* Variant: no floor at zero.
SleepTimeUnfloored(e) == Period - e

\* max(0, (timedelta(minutes=15) - (end_time - start_time)).total_seconds())
SleepTime(e) == Max(0, Period - e)

\* end_time is taken and sleep_time computed; the task starts its sleep.
EndCycle ==
    /\ pc = "end_cycle"
    /\ sleep_time' = SleepTime(elapsed)
    /\ pc' = "sleeping"
    /\ UNCHANGED <<cities, envVars, handlerVars, cycle, cursor, ids, coords, forecasts, wi, exc,
                   snapshot, pageResult, fetchVars, elapsed>>

\* `await asyncio.sleep(sleep_time)` ends.
Sleep ==
    /\ pc = "sleeping"
    /\ pc' = "loop"
    /\ UNCHANGED <<cities, envVars, handlerVars, cycle, cursor, ids, coords, forecasts, wi, exc,
                   sleep_time, snapshot, pageResult, fetchVars, elapsed>>

\* The awaits of refresh_task that are inside its try statement.
InTry(p) == p \in {"select", "fetchmany", "fetching", "update", "commit"}

\* lifespan: bg_task.cancel().  The task is suspended in an await and
\* CancelledError is raised there.  No except clause on its way catches it
\* (fetch_forecasts: httpx.HTTPStatusError; refresh_forecasts:
\* OpenMeteoUnnacessableError; refresh_task: Exception), so the task ends; an
\* except clause of refresh_task that caught it would log it and go on to the
\* sleep.  The sleep itself is outside the try.
Cancel ==
    /\ InTry(pc) \/ pc = "sleeping"
    /\ IF InTry(pc) /\ TaskCatches("CancelledError")
       THEN pc' = "end_cycle" /\ exc' = "CancelledError"
       ELSE pc' = "cancelled" /\ exc' = exc
    /\ UNCHANGED <<cities, envVars, handlerVars, cycle, cursor, ids, coords, forecasts, wi,
                   sleep_time, snapshot, pageResult, fetchVars, elapsed>>

\* ------------------------------------------------------------ the program
CityLat(i) == 40 + i
CityLon(i) == -74

CityName(i) == <<"city", i>>

CityRow(i, cached) ==
    [id |-> i, name |-> CityName(i), lat |-> CityLat(i), lon |-> CityLon(i),
     forecast |-> IF cached THEN ForecastObject(CityLat(i), CityLon(i), 0) ELSE NoForecast]

\* Coordinates of the rows of page p (of PageSize rows) of a table.
PageRows(table, p) == {i \in 1..Len(table) : (i - 1) \div PageSize = p - 1}
PageCoords(table, p) == {<<table[i].lat, table[i].lon>> : i \in PageRows(table, p)}

\* The refresh task has not been started and no fetch is in progress.
TaskNotStarted ==
    /\ pc = "loop"
    /\ cycle = 0
    /\ cursor = <<>>
    /\ ids = <<>>
    /\ coords = <<>>
    /\ forecasts = <<>>
    /\ wi = 1
    /\ exc = "none"
    /\ elapsed = 0
    /\ sleep_time = 0
    /\ fpc = "idle"
    /\ coordinates = <<>>
    /\ attempt = 0
    /\ requests = 0
    /\ waits = 0
    /\ outcomes = <<>>
    /\ result = <<>>
    /\ error = "none"
    /\ snapshot = <<>>
    /\ pageResult = <<>>

\* The time of day the program is started at.
BootTime == <<10, 0>>

Init ==
    /\ clock = BootTime
    /\ malformed = FALSE
    /\ \E n \in 0..MaxCities :
       \E uncached \in {u \in SUBSET (1..n) : Cardinality(u) <= MaxUncached} :
          cities = [i \in 1..n |-> CityRow(i, i \notin uncached)]
    /\ outage \in {{}, PageCoords(cities, 2)}
    /\ flaky \in BOOLEAN
    /\ pc = "loop"
    /\ cycle = 0
    /\ cursor = <<>>
    /\ ids = <<>>
    /\ coords = <<>>
    /\ forecasts = <<>>
    /\ wi = 1
    /\ exc = "none"
    /\ elapsed = 0
    /\ sleep_time = 0
    /\ fpc = "idle"
    /\ coordinates = <<>>
    /\ attempt = 0
    /\ requests = 0
    /\ waits = 0
    /\ outcomes = <<>>
    /\ result = <<>>
    /\ error = "none"
    /\ snapshot = <<>>
    /\ pageResult = <<>>
    /\ HandlersIdle

RefreshNext ==
    \/ StartCycle
    \/ ExecuteSelect
    \/ FetchMany
    \/ RefreshAttempt
    \/ RefreshBackoff
    \/ ExecuteUpdate
    \/ Commit
    \/ StorageFails
    \/ EndCycle
    \/ Sleep

Next == RefreshNext \/ Cancel

Spec == Init /\ [][Next]_vars

\* The event loop runs a task whose await has completed, every request ends
\* (in a response, an error or a timeout) and every sleep ends.
FairSpec == Spec /\ WF_vars(RefreshNext)

\* ------------------------------- the refresh task and a malformed upstream
\* Every row has a cached series, and every answer of the upstream is one
\* object short of the coordinates asked for.
InitMalformed ==
    /\ clock = BootTime
    /\ malformed = TRUE
    /\ \E n \in 0..MaxCities : cities = [i \in 1..n |-> CityRow(i, TRUE)]
    /\ outage = {}
    /\ flaky \in BOOLEAN
    /\ TaskNotStarted
    /\ HandlersIdle

SpecMalformed == InitMalformed /\ [][Next]_vars

\* ------------------------------------- fetch_forecasts called on its own
\* Coordinate lists of up to MaxCoords coordinates, the empty list included.
CoordLists ==
    UNION {[1..n -> {<<CityLat(i), CityLon(i)>> : i \in 1..2}] : n \in 0..MaxCoords}

InitFetch ==
    /\ clock = BootTime
    /\ malformed = FALSE
    /\ cities = <<>>
    /\ outage = {}
    /\ flaky = TRUE
    /\ pc = "caller"
    /\ cycle = 0
    /\ cursor = <<>>
    /\ ids = <<>>
    /\ coords = <<>>
    /\ forecasts = <<>>
    /\ wi = 1
    /\ exc = "none"
    /\ elapsed = 0
    /\ sleep_time = 0
    /\ fpc = "idle"
    /\ coordinates = <<>>
    /\ attempt = 0
    /\ requests = 0
    /\ waits = 0
    /\ outcomes = <<>>
    /\ result = <<>>
    /\ error = "none"
    /\ snapshot = <<>>
    /\ pageResult = <<>>
    /\ HandlersIdle

CallFetch ==
    /\ pc = "caller"
    /\ fpc = "idle"
    /\ \E c \in CoordLists : FetchCall(c)
    /\ UNCHANGED <<cities, envVars, handlerVars, refreshVars, elapsed>>

CallerAttempt ==
    /\ pc = "caller"
    /\ \E o \in Outcomes, d \in Latencies :
          /\ FetchAttempt(o, d)
          /\ outcomes' = Append(outcomes, o)
    /\ UNCHANGED <<cities, envVars, handlerVars, refreshVars>>

CallerBackoff ==
    /\ pc = "caller"
    /\ FetchBackoff
    /\ UNCHANGED <<cities, envVars, handlerVars, refreshVars, outcomes>>

\* ----------------------------------------------- OpenMeteoRepo.fetch_current
\* Coordinates asked for: a city of the tests and the ends of the ranges.
CurrentLats == {-90, CityLat(1), 90}
CurrentLons == {-180, CityLon(1)}

\* The "current" object of the provider's answer for one coordinate.
CurrentAnswer(lat, lon) ==
    [current |-> [k \in {"temperature_2m", "wind_speed_10m", "surface_pressure"} |->
                     [of |-> k, latitude |-> lat, longitude |-> lon]]]

\* The dict fetch_current returns for the provider's answer.
CurrentSnapshot(data) ==
    LET curr == data.current IN
    [temperature |-> curr["temperature_2m"],
     wind_speed  |-> curr["wind_speed_10m"],
     pressure    |-> curr["surface_pressure"]]

\* Variant: no except clause around the request.
CurrentExceptCatchesNothing(e) == FALSE

\* `except httpx.HTTPStatusError` of fetch_current
CurrentExceptCatches(e) == e = "HTTPStatusError"

\* get_current_weather calls fetch_current, which builds params and waits for
\* client.get.
CurrentCall ==
    /\ pc = "caller"
    /\ cur.cpc = "idle"
    /\ \E lat \in CurrentLats, lon \in CurrentLons :
          cur' = [cpc |-> "request", lat |-> lat, lon |-> lon, requests |-> 0]
    /\ UNCHANGED <<cities, envVars, refreshVars, fetchVars, elapsed, hreq, prev, regs>>

\* `resp = await client.get(...)` ends in outcome o.  A response that is not an
\* error is returned as the snapshot; raise_for_status raises for an error
\* response, and the except clause turns what it catches into
\* OpenMeteoUnnacessableError.  There is no loop around the request.
CurrentAttempt ==
    /\ pc = "caller"
    /\ cur.cpc = "request"
    /\ \E o \in Outcomes :
          cur' = IF o = "ok"
                 THEN [cpc |-> "returned", lat |-> cur.lat, lon |-> cur.lon,
                       requests |-> cur.requests + 1, outcome |-> o,
                       value |-> CurrentSnapshot(CurrentAnswer(cur.lat, cur.lon))]
                 ELSE [cpc |-> "raised", lat |-> cur.lat, lon |-> cur.lon,
                       requests |-> cur.requests + 1, outcome |-> o,
                       error |-> IF CurrentExceptCatches(RaisedBy(o))
                                 THEN "OpenMeteoUnnacessableError"
                                 ELSE RaisedBy(o)]
    /\ UNCHANGED <<cities, envVars, refreshVars, fetchVars, elapsed, hreq, prev, regs>>

NextFetch ==
    \/ CallFetch
    \/ CallerAttempt
    \/ CallerBackoff
    \/ CurrentCall
    \/ CurrentAttempt

SpecFetch == InitFetch /\ [][NextFetch]_vars

\* ------------------------------------------------- CityRepo.get_forecast_json
\* `SELECT forecast_json FROM cities WHERE name = ?` and fetchone: the first
\* row of that name, if any.
RowsNamed(table, name) == {i \in 1..Len(table) : table[i].name = name}
FetchOne(table, name) ==
    IF RowsNamed(table, name) = {}
    THEN [kind |-> "no_row"]
    ELSE [kind |-> "row",
          forecast_json |-> table[CHOOSE i \in RowsNamed(table, name) :
                                     \A j \in RowsNamed(table, name) : i <= j].forecast]

\* `json.loads(row[0]) if row and row[0] is not None else None`
GetForecastJson(row) ==
    IF row.kind = "row" /\ row.forecast_json.kind # "null"
    THEN row.forecast_json
    ELSE NoForecast

\* ------------------------------------------------------------ city_weather
\* Variant: the time is rounded whatever the clock reads.
RequestedHourAlwaysRounded(time, now) ==
    IF time[2] <= 30 THEN time[1] ELSE (time[1] + 1) % HoursPerDay

\* Variant: the half hour itself is rounded up.
RequestedHourBelowHalf(time, now) ==
    IF Later(time, now)
    THEN IF time[2] < 30 THEN time[1] ELSE (time[1] + 1) % HoursPerDay
    ELSE time[1]

\* `time.hour if time.minute <= 30 else (time.hour + 1) % 24`, taken when the
\* requested time is later than now, and time.hour otherwise.
RequestedHour(time, now) ==
    IF Later(time, now)
    THEN IF time[2] <= 30 THEN time[1] ELSE (time[1] + 1) % HoursPerDay
    ELSE time[1]

\* `datetime.fromisoformat(hourly["time"][0]).hour`
UpdateHour(hourly) == HourOf(hourly["time"][1])

\* Variant: the rule of main.py 352-354, `if index < 0: index -= 1`.
IndexStepBack(hourly, time, now) ==
    IF RequestedHour(time, now) - UpdateHour(hourly) < 0
    THEN RequestedHour(time, now) - UpdateHour(hourly) - 1
    ELSE RequestedHour(time, now) - UpdateHour(hourly)

\* Variant: the difference is taken the other way round.
IndexReversed(hourly, time, now) == UpdateHour(hourly) - RequestedHour(time, now)

\* `index = requested_hour - update_hour`
Index(hourly, time, now) == RequestedHour(time, now) - UpdateHour(hourly)

\* Variant: a negative subscript counts from the end of a list one longer (the
\* `index -= 1` of main.py 353-354, made for its series of 25 points).
PositionOfShifted(len, index) == IF index >= 0 THEN index ELSE len + index - 1

\* list[index]: the position of the list, counted from 0, that the subscript
\* reads.  A negative subscript counts from the end of the list.
PositionOf(len, index) == IF index >= 0 THEN index ELSE len + index

\* list[index] raises IndexError for a position that is not in the list.
IndexError(len, index) == PositionOf(len, index) \notin 0..(len - 1)

\* `{p.value: hourly[p.value][index] for p in include}`
ExtractedData(hourly, include, index) ==
    [p \in include |-> hourly[p][PositionOf(Len(hourly[p]), index) + 1]]

\* The response of city_weather to (name, time, include) when the row read is
\* row and the clock read is now.  An exception that is not an HTTPException
\* is answered with status 500.
NotFound == [status |-> 404, detail |-> "City not found or forecast is not available"]
ServerError == [status |-> 500, detail |-> "Internal Server Error"]
CityWeather(row, name, time, include, now) ==
    LET forecast == GetForecastJson(row) IN
    IF forecast.kind = "null"
    THEN NotFound
    ELSE LET hourly == HourlyOf(forecast)
             index  == Index(hourly, time, now) IN
         IF \E p \in include : IndexError(Len(hourly[p]), index)
         THEN ServerError
         ELSE [status |-> 200, city_name |-> name, time |-> time,
               data |-> ExtractedData(hourly, include, index)]

\* Variant: the sleep between two cycles is time.sleep, which returns to the
\* event loop only when it ends.
YieldsButSleep(p) == p # "sleeping"

\* Whether refresh_task, waiting at position p, has given the event loop back
\* to the other coroutines.  It has at every position: each wait of the task
\* is an await, of aiosqlite, of httpx or of asyncio.sleep.
Yields(p) == TRUE

\* A request arrives: repo.get_forecast_json is entered and waits for its
\* cursor.
WeatherRequest(names, times, includes) ==
    /\ Yields(pc)
    /\ hreq.hpc = "idle"
    /\ \E name \in names, time \in times, include \in includes :
          hreq' = [hpc |-> "execute", name |-> name, time |-> time, include |-> include]
    /\ UNCHANGED <<cities, envVars, refreshVars, fetchVars, elapsed, prev, cur, regs>>

\* The client makes the request it has the answer of once more.
WeatherRepeat ==
    /\ Yields(pc)
    /\ hreq.hpc = "done"
    /\ prev.hpc = "idle"
    /\ prev' = hreq
    /\ hreq' = [hpc |-> "execute", name |-> hreq.name, time |-> hreq.time,
                include |-> hreq.include]
    /\ UNCHANGED <<cities, envVars, refreshVars, fetchVars, elapsed, cur, regs>>

\* `await cursor.execute("SELECT forecast_json ...")`: the statement reads the
\* table.
WeatherSelect ==
    /\ Yields(pc)
    /\ hreq.hpc = "execute"
    /\ hreq' = [hpc |-> "fetchone", name |-> hreq.name, time |-> hreq.time,
                include |-> hreq.include, row |-> FetchOne(cities, hreq.name)]
    /\ UNCHANGED <<cities, envVars, refreshVars, fetchVars, elapsed, prev, cur, regs>>

\* `row = await cursor.fetchone()` ends; the rest of city_weather has no await
\* and reads the clock once.
WeatherRespond(nows) ==
    /\ Yields(pc)
    /\ hreq.hpc = "fetchone"
    /\ \E now \in nows :
          hreq' = [hpc |-> "done", name |-> hreq.name, time |-> hreq.time,
                   include |-> hreq.include, row |-> hreq.row, now |-> now,
                   response |-> CityWeather(hreq.row, hreq.name, hreq.time,
                                            hreq.include, now)]
    /\ UNCHANGED <<cities, envVars, refreshVars, fetchVars, elapsed, prev, cur, regs>>

\* ------------------------------------------------- city_weather on its own
\* Names asked for: a city with a cached series, a city registered while the
\* upstream was unavailable, and a name that is not in the table.
NoSuchCity == CityName(0)
WeatherNames == {CityName(1), CityName(2), NoSuchCity}

\* The series of city 1 was fetched in any hour of the day.
InitWeather ==
    /\ clock \in Hours \X {0}
    /\ malformed = FALSE
    /\ cities = <<CityRow(1, TRUE), CityRow(2, FALSE)>>
    /\ outage = {}
    /\ flaky = FALSE
    /\ TaskNotStarted
    /\ HandlersIdle

NextWeather ==
    \/ WeatherRequest(WeatherNames, TimesOfDay, Includes)
    \/ WeatherSelect
    \/ WeatherRespond(NowTimes)
    \/ WeatherRepeat

SpecWeather == InitWeather /\ [][NextWeather]_vars

\* ------------------------------------ city_weather beside the refresh task
\* One city with a cached series, and an upstream that may fail, so that the
\* task is met in its requests, its retry waits, its writes and its sleeps.
InitServe ==
    /\ clock = BootTime
    /\ malformed = FALSE
    /\ cities = <<CityRow(1, TRUE)>>
    /\ outage = {}
    /\ flaky = TRUE
    /\ TaskNotStarted
    /\ HandlersIdle

\* A request of tests.py 347-364: one city, on the hour, the temperature.
ServeRequest == WeatherRequest({CityName(1)}, {<<12, 0>>}, {{"temperature_2m"}})
\* The steps of the request once it is in.
ServeRead == WeatherSelect \/ WeatherRespond({<<12, 15>>})

NextServe == RefreshNext \/ Cancel \/ ServeRequest \/ ServeRead

\* The event loop runs a handler whose await has completed.  Nothing is asked
\* of the refresh task: it may stay where it is for good.
SpecServe == InitServe /\ [][NextServe]_vars /\ WF_vars(ServeRead)

\* --------------------------------------------------------- CityRepo.add_city
\* Variant: add_city does not look for the city before it fetches.
ExistingNever(table, c) == FALSE

\* `SELECT ... WHERE name = ? AND latitude = ? AND longitude = ?` has a row.
Existing(table, c) ==
    \E i \in 1..Len(table) :
        /\ table[i].name = CityName(c)
        /\ table[i].lat = CityLat(c)
        /\ table[i].lon = CityLon(c)

\* existing[0]: the id of the row the SELECT found.  There is one such row at
\* most: UNIQUE(latitude, longitude).
ExistingId(table, c) ==
    table[CHOOSE i \in 1..Len(table) :
              /\ table[i].name = CityName(c)
              /\ table[i].lat = CityLat(c)
              /\ table[i].lon = CityLon(c)].id

\* UNIQUE(latitude, longitude) of table cities forbids the INSERT.
UniqueViolated(table, c) ==
    \E i \in 1..Len(table) : table[i].lat = CityLat(c) /\ table[i].lon = CityLon(c)

\* Variant: add_city has no except clause around the fetch.
AddCityCatchesNothing(e) == FALSE

\* `except OpenMeteoUnnacessableError` of add_city
AddCityCatches(e) == e = "OpenMeteoUnnacessableError"

\* The params of fetch_forecasts([(city.lat, city.lon)])
RegParams(c) == RequestParams(<<<<CityLat(c), CityLon(c)>>>>)

\* The state of caller p's add_city after a step.
RegStep(p, rpc, att, fetch, forecast, err) ==
    regs' = [regs EXCEPT ![p] = [rpc |-> rpc, c |-> regs[p].c, id |-> regs[p].id,
                                 existing |-> regs[p].existing, attempt |-> att,
                                 fetch |-> fetch, forecast |-> forecast,
                                 error |-> err, committed |-> regs[p].committed,
                                 returned |-> regs[p].returned]]

\* `await cursor.execute("SELECT ...")`: the duplicate check reads the table.
RegCheck(p) ==
    /\ regs[p].rpc = "check"
    /\ regs' = [regs EXCEPT ![p].rpc = "fetchone",
                            ![p].existing = Existing(cities, regs[p].c)]
    /\ UNCHANGED <<cities, envVars, refreshVars, fetchVars, elapsed, hreq, prev, cur>>

\* `existing = await cursor.fetchone()`: the summary of an existing row is
\* returned, `id=ID(existing[0])`; with none,
\* fetch_forecasts is called for the one coordinate and waits for client.get.
RegFetchOne(p) ==
    /\ regs[p].rpc = "fetchone"
    /\ regs' = [regs EXCEPT ![p].rpc = IF regs[p].existing THEN "returned_existing"
                                                            ELSE "request",
                            ![p].returned = IF regs[p].existing
                                            THEN ExistingId(cities, regs[p].c)
                                            ELSE 0]
    /\ UNCHANGED <<cities, envVars, refreshVars, fetchVars, elapsed, hreq, prev, cur>>

\* One client.get of the initial fetch ends in outcome o.  fetch_forecasts
\* returns the wrapped answer, of which add_city keeps the first object; or it
\* goes to its retry wait; or it raises, and what add_city catches leaves
\* initial_forecast None.
RegAttempt(p) ==
    /\ regs[p].rpc = "request"
    /\ \E o \in AllowedOutcomes(RegParams(regs[p].c)) :
          LET r == regs[p]
              e == RaisedBy(o)
              raised == IF ExceptCatches(e) THEN "OpenMeteoUnnacessableError" ELSE e
          IN  IF o = "ok"
              THEN RegStep(p, "insert", r.attempt, "returned",
                           WrapResponse(UpstreamAnswer(RegParams(r.c), cycle))[1], "none")
              ELSE IF ExceptCatches(e) /\ ~IsLastAttempt(r.attempt)
              THEN RegStep(p, "backoff", r.attempt, r.fetch, r.forecast, "none")
              ELSE IF AddCityCatches(raised)
              THEN RegStep(p, "insert", r.attempt, "unavailable", NoForecast, "none")
              ELSE RegStep(p, "raised", r.attempt,
                           IF raised = "OpenMeteoUnnacessableError" THEN "unavailable"
                                                                    ELSE "raised",
                           r.forecast, raised)
    /\ UNCHANGED <<cities, envVars, refreshVars, fetchVars, elapsed, hreq, prev, cur>>

\* `await asyncio.sleep(wait_for)` ends.  A loop that runs out of attempts
\* returns None, and `initial_forecast[0]` raises TypeError.
RegBackoff(p) ==
    /\ regs[p].rpc = "backoff"
    /\ IF regs[p].attempt + 1 < Retries
       THEN RegStep(p, "request", regs[p].attempt + 1, regs[p].fetch, regs[p].forecast,
                    "none")
       ELSE RegStep(p, "raised", regs[p].attempt + 1, "returned_none", regs[p].forecast,
                    "TypeError")
    /\ UNCHANGED <<cities, envVars, refreshVars, fetchVars, elapsed, hreq, prev, cur>>

\* `await cursor.execute("INSERT INTO cities ...")`
RegInsert(p) ==
    /\ regs[p].rpc = "insert"
    /\ IF UniqueViolated(cities, regs[p].c)
       THEN /\ RegStep(p, "raised", regs[p].attempt, regs[p].fetch, regs[p].forecast,
                       "IntegrityError")
            /\ cities' = cities
       ELSE /\ regs' = [regs EXCEPT ![p].rpc = "commit"]
            /\ cities' = Append(cities,
                                [id |-> regs[p].id, name |-> CityName(regs[p].c),
                                 lat |-> CityLat(regs[p].c), lon |-> CityLon(regs[p].c),
                                 forecast |-> regs[p].forecast])
    /\ UNCHANGED <<envVars, refreshVars, fetchVars, elapsed, hreq, prev, cur>>

\* `await self.db.commit()`, and the summary of the new city is returned.  The
\* commit is that of the connection (get_db_connection yields db_instance):
\* it makes durable every statement executed on the connection so far, and
\* the table it makes durable is recorded.
RegCommit(p) ==
    /\ regs[p].rpc = "commit"
    /\ regs' = [regs EXCEPT ![p].rpc = "returned_new", ![p].committed = cities,
                            ![p].returned = regs[p].id]
    /\ UNCHANGED <<cities, envVars, refreshVars, fetchVars, elapsed, hreq, prev, cur>>

\* ------------------------------------------------ concurrent registrations
\* MaxRegistrations callers post a city each at the same time, to an empty
\* table.  Callers may post the same city; the city of a caller is not before
\* that of the caller before it.  Each request carries an id of its own.
Callers == 1..MaxRegistrations

InitRegister ==
    /\ clock = BootTime
    /\ malformed = FALSE
    /\ cities = <<>>
    /\ outage = {}
    /\ flaky = TRUE
    /\ TaskNotStarted
    /\ hreq = IdleRequest
    /\ prev = IdleRequest
    /\ cur = IdleCurrent
    /\ \E choice \in [Callers -> Callers] :
          /\ \A p \in Callers : p > 1 => choice[p - 1] <= choice[p]
          /\ regs = [p \in Callers |->
                        [rpc |-> "check", c |-> choice[p], id |-> p, existing |-> FALSE,
                         attempt |-> 0, fetch |-> "none", forecast |-> NoForecast,
                         error |-> "none", committed |-> <<>>, returned |-> 0]]

NextRegister ==
    \E p \in Callers :
        \/ RegCheck(p)
        \/ RegFetchOne(p)
        \/ RegAttempt(p)
        \/ RegBackoff(p)
        \/ RegInsert(p)
        \/ RegCommit(p)

SpecRegister == InitRegister /\ [][NextRegister]_vars

\* ------------------------------------------------- fetch_forecasts claims
Finished == fpc \in {"returned", "returned_none", "raised"}

AllOutcomes(o) == \A i \in 1..Len(outcomes) : outcomes[i] = o

\* C3. Exhaustion: a call for a non-empty list whose every attempt ends in a
\* 5xx response ends by raising OpenMeteoUnnacessableError after exactly 3
\* requests, and no call makes a 4th request.
C3_Exhaustion ==
    /\ requests <= 3
    /\ (Finished /\ coordinates # <<>> /\ AllOutcomes("server_error"))
          => /\ fpc = "raised"
             /\ error = "OpenMeteoUnnacessableError"
             /\ requests = 3

C3_Witness ==
    /\ fpc = "raised"
    /\ outcomes = <<"server_error", "server_error", "server_error">>
    /\ error = "OpenMeteoUnnacessableError"

\* C4. Retry: after two 5xx responses the call is still going and makes a
\* third request; when that one succeeds the call returns one result per
\* coordinate, having made 3 requests and 2 backoff waits of 10 seconds; every
\* request but the first is preceded by a wait.
C4_Retry ==
    /\ outcomes = <<"server_error", "server_error">> => fpc \in {"backoff", "request"}
    /\ fpc = "request" => waits = requests
    /\ elapsed >= 10 * waits
    /\ outcomes = <<"server_error", "server_error", "ok">>
          => /\ fpc = "returned"
             /\ error = "none"
             /\ Len(result) = Len(coordinates)
             /\ requests = 3
             /\ waits = 2

C4_Witness ==
    /\ outcomes = <<"server_error", "server_error", "ok">>
    /\ fpc = "returned"
    /\ waits = 2

\* C5. A 4xx response to the first request ends the call at once: it has
\* raised, after one request and no backoff wait.
C5_ClientErrorNotRetried ==
    (outcomes # <<>> /\ outcomes[1] = "client_error")
        => /\ fpc = "raised"
           /\ requests = 1
           /\ waits = 0

\* C6. A call whose attempts all fail to connect ends, like one whose attempts
\* all get a 5xx response, after 3 requests with OpenMeteoUnnacessableError.
C6_ConnectFailureRetried ==
    (fpc = "raised" /\ AllOutcomes("connect_error"))
        => /\ requests = 3
           /\ error = "OpenMeteoUnnacessableError"

\* C7. A call for N >= 1 coordinates that returns, returns N results, and
\* result i is the provider's object for coordinate i.
C7_OneResultPerCoordinate ==
    (fpc = "returned" /\ coordinates # <<>>)
        => /\ Len(result) = Len(coordinates)
           /\ \A i \in 1..Len(coordinates) :
                 /\ result[i].kind = "object"
                 /\ result[i].latitude = coordinates[i][1]
                 /\ result[i].longitude = coordinates[i][2]

C7_Witness ==
    /\ fpc = "returned"
    /\ Len(coordinates) = 1
    /\ Len(result) = 1

\* C8. A call for the empty list has returned the empty list, with no request
\* made and no backoff wait.
C8_EmptyInput ==
    (fpc # "idle" /\ coordinates = <<>>)
        => /\ fpc = "returned"
           /\ result = <<>>
           /\ requests = 0
           /\ waits = 0
           /\ outcomes = <<>>

C8_Witness ==
    /\ pc = "caller"
    /\ fpc = "returned"
    /\ coordinates = <<>>
    /\ requests = 0

\* ----------------------------------------------- refresh_forecasts claims
\* The series f was returned by the upstream in cycle c.
FetchedIn(f, c) == f.kind = "object" /\ f.stamp = c

\* refresh_forecasts has returned, without an exception.
CycleReturned == pc = "end_cycle" /\ exc = "none"

ThreePages == Len(snapshot) > 2 * PageSize /\ Len(snapshot) <= 3 * PageSize

\* C1. Partial-batch isolation: when a cycle over 3 pages returns, the upstream
\* having answered 5xx to every request for page 2 and 2xx to every other
\* request, each row of pages 1 and 3 holds a series of this cycle and each row
\* of page 2 the series it held when the cycle began.
C1_PartialBatchIsolation ==
    (CycleReturned /\ ThreePages /\ ~flaky /\ outage = PageCoords(snapshot, 2))
        => /\ \A i \in PageRows(snapshot, 1) \cup PageRows(snapshot, 3) :
                 FetchedIn(cities[i].forecast, cycle)
           /\ \A i \in PageRows(snapshot, 2) :
                 cities[i].forecast = snapshot[i].forecast

\* C2. Full pass: when refresh_forecasts returns and no call of the cycle has
\* failed, every row that was in the table at the start of the cycle holds a
\* series of this cycle.
C2_FullPass ==
    (CycleReturned /\ \A p \in 1..Len(pageResult) : pageResult[p] = "ok")
        => \A i \in 1..Len(snapshot) : FetchedIn(cities[i].forecast, cycle)

\* ---------------------------------------------------- refresh_task claims
\* C9. Pacing: the sleep after a cycle is 900 seconds less the cycle's
\* duration and never below zero, so zero after a cycle longer than the period;
\* the sleep is followed by the top of the loop, where exactly one cycle starts.
C9_SleepIsFloored ==
    pc = "sleeping"
        => /\ sleep_time >= 0
           /\ elapsed >= 900 => sleep_time = 0
           /\ elapsed < 900 => sleep_time = 900 - elapsed

C9_OneCycleFollows ==
    /\ (pc = "sleeping" /\ pc' # pc) => pc' \in {"loop", "cancelled"}
    /\ (pc = "loop" /\ pc' # pc) => (pc' = "select" /\ cycle' = cycle + 1)
    /\ cycle' # cycle => (pc = "loop" /\ cycle' = cycle + 1)

C9_Pacing == []C9_SleepIsFloored /\ [][C9_OneCycleFollows]_vars

C9_Witness ==
    /\ pc = "sleeping"
    /\ cycle < MaxCycles
    /\ elapsed > 900
    /\ sleep_time = 0

\* C10. An exception that ends refresh_forecasts never ends refresh_task: the
\* task goes on to its sleep computation, and from there the top of the loop
\* is reached again unless the task is cancelled.
C10_ExceptionIsCaught ==
    (exc' # exc /\ exc' # "none") => pc' = "end_cycle"

C10_LoopSurvives ==
    /\ [](pc # "terminated")
    /\ [][C10_ExceptionIsCaught]_vars
    /\ [](exc # "none" => <>(pc \in {"loop", "cancelled"}))

C10_Witness ==
    /\ exc \in {"ConnectError", "OperationalError"}
    /\ pc = "sleeping"

\* ------------------------- the refresh task and a registration, one connection
\* lifespan opens one connection, db_instance, starts refresh_task on it and
\* get_db_connection hands the same connection to every request.  The table
\* holds one page of cities, each with a series, and one client posts a city
\* that is not in the table while the refresh task runs.
InitShared ==
    /\ clock = BootTime
    /\ malformed = FALSE
    /\ cities = [i \in 1..PageSize |-> CityRow(i, TRUE)]
    /\ outage = {}
    /\ flaky = TRUE
    /\ TaskNotStarted
    /\ hreq = IdleRequest
    /\ prev = IdleRequest
    /\ cur = IdleCurrent
    /\ regs = <<[rpc |-> "check", c |-> PageSize + 1, id |-> PageSize + 1,
                 existing |-> FALSE, attempt |-> 0, fetch |-> "none",
                 forecast |-> NoForecast, error |-> "none", committed |-> <<>>,
                 returned |-> 0]>>

NextShared ==
    \/ RefreshNext
    \/ Cancel
    \/ RegCheck(1)
    \/ RegFetchOne(1)
    \/ RegAttempt(1)
    \/ RegBackoff(1)
    \/ RegInsert(1)
    \/ RegCommit(1)

SpecShared == InitShared /\ [][NextShared]_vars

\* ---------------------------------------------------- city_weather claims
\* The request has been answered from a cached series.
Served == hreq.hpc = "done" /\ hreq.response.status = 200
ServedHourly == HourlyOf(hreq.row.forecast_json)
ServedIndex == Index(ServedHourly, hreq.time, hreq.now)
ServedRequestedHour == RequestedHour(hreq.time, hreq.now)
ServedUpdateHour == UpdateHour(ServedHourly)
\* The value of parameter p that the series holds k hours after its start.
ValueAfter(hourly, p, k) == [of |-> p, at |-> hourly["time"][1] + k]

\* C11, as stated: when the requested hour is before the hour the series
\* starts at, the index city_weather computes is the positive
\* requested_hour + 24 - update_hour.
C11_IndexIsSmallPositive ==
    (Served /\ ServedRequestedHour < ServedUpdateHour)
        => ServedIndex = ServedRequestedHour + HoursPerDay - ServedUpdateHour

\* C11, amended: when the requested hour is before the hour the series starts
\* at, the index computed is the negative requested_hour - update_hour, and
\* the value returned for every requested parameter is the one the series
\* holds requested_hour + 24 - update_hour hours after its start.
C11_WraparoundPosition ==
    (Served /\ ServedRequestedHour < ServedUpdateHour)
        => /\ ServedIndex = ServedRequestedHour - ServedUpdateHour
           /\ ServedIndex < 0
           /\ \A p \in hreq.include :
                 hreq.response.data[p] =
                     ValueAfter(ServedHourly, p,
                                ServedRequestedHour + HoursPerDay - ServedUpdateHour)

\* A series that starts at 23 h is asked for 01:00: the index is -22 and the
\* values returned are those 2 hours after the start.
C11_Witness ==
    /\ Served
    /\ ServedUpdateHour = 23
    /\ hreq.time = <<1, 0>>
    /\ ServedIndex = -22
    /\ \A p \in hreq.include : hreq.response.data[p] = ValueAfter(ServedHourly, p, 2)

\* The row read holds a cached series.
RowCached == hreq.row.kind = "row" /\ hreq.row.forecast_json.kind # "null"

\* C12: a request on the hour (minute 0, hour h) for a city with a cached
\* series is answered with status 200 whatever the hour the series starts at
\* and whatever the clock reads, and the value returned for each requested
\* parameter is the value at the position of the series whose timestamp has
\* hour h; the series has such a position.
C12_IndexAlignment ==
    (hreq.hpc = "done" /\ RowCached /\ hreq.time[2] = 0)
        => /\ hreq.response.status = 200
           /\ \E i \in 1..Len(ServedHourly["time"]) :
                 HourOf(ServedHourly["time"][i]) = hreq.time[1]
           /\ \A i \in 1..Len(ServedHourly["time"]) :
                 HourOf(ServedHourly["time"][i]) = hreq.time[1]
                    => \A p \in hreq.include :
                          hreq.response.data[p] = ServedHourly[p][i]

\* A series that starts at 15 h is asked at 12:15 for 03:00, with every
\* parameter: the answer holds the values 12 hours after the start.
C12_Witness ==
    /\ Served
    /\ ServedUpdateHour = 15
    /\ hreq.time = <<3, 0>>
    /\ hreq.now = <<12, 15>>
    /\ hreq.include = Parameters
    /\ \A p \in Parameters : hreq.response.data[p] = ServedHourly[p][13]

\* C13, as stated: a request for a city with a cached series never ends in a
\* fault, and an index outside 0 .. 23 is reported as not found instead of
\* being used as a subscript of the series.
C13_OutOfRangeIsReported ==
    (hreq.hpc = "done" /\ RowCached)
        => /\ hreq.response.status # 500
           /\ ServedIndex \notin 0..HorizonLast => hreq.response.status = 404

\* C13, amended: a request for a city with a cached series is always answered
\* with status 200, never with a fault and never as out of range; the index
\* computed lies in -23 .. 23, and the value returned for each parameter is a
\* value of the series: the one index hours after the start for an index of 0
\* or more, the one index + 24 hours after the start for a negative index.
C13_PositionInSeries ==
    (hreq.hpc = "done" /\ RowCached)
        => /\ hreq.response.status = 200
           /\ ServedIndex \in (0 - HorizonLast)..HorizonLast
           /\ \A p \in hreq.include :
                 /\ \E k \in 0..HorizonLast :
                       hreq.response.data[p] = ValueAfter(ServedHourly, p, k)
                 /\ hreq.response.data[p] =
                       ValueAfter(ServedHourly, p,
                                  IF ServedIndex >= 0 THEN ServedIndex
                                                      ELSE ServedIndex + HoursPerDay)

\* A series that starts at 10 h is asked for 09:31 after that time of day: the
\* index is -1, and the answer holds the last values of the series.
C13_Witness ==
    /\ Served
    /\ ServedUpdateHour = 10
    /\ hreq.time = <<9, 31>>
    /\ hreq.now = <<23, 45>>
    /\ ServedIndex = -1
    /\ \A p \in hreq.include :
          hreq.response.data[p] = ValueAfter(ServedHourly, p, HorizonLast)

\* What city_weather answers, for the request in hand, when no row has the
\* name asked for.
AnswerToUnknownName ==
    CityWeather(FetchOne(cities, NoSuchCity), NoSuchCity, hreq.time, hreq.include,
                hreq.now)
\* What it answers when the row has no cached series.
AnswerToUncached ==
    CityWeather([kind |-> "row", forecast_json |-> NoForecast], hreq.name, hreq.time,
                hreq.include, hreq.now)
\* The requested hour is the hour of no timestamp of the cached series.
OutsideHorizon ==
    \A i \in 1..Len(ServedHourly["time"]) :
        HourOf(ServedHourly["time"][i]) # ServedRequestedHour

\* C14: a request for a name that is not in the table, a request for a city
\* without a cached series and a request for a time outside the cached series
\* are each answered with a 404 that differs from the answers to the other
\* two.
C14_ThreeNotFoundOutcomes ==
    hreq.hpc = "done"
        => /\ hreq.row.kind = "no_row" => hreq.response.status = 404
           /\ (hreq.row.kind = "row" /\ ~RowCached)
                 => /\ hreq.response.status = 404
                    /\ hreq.response # AnswerToUnknownName
           /\ (RowCached /\ OutsideHorizon)
                 => /\ hreq.response.status = 404
                    /\ hreq.response # AnswerToUnknownName
                    /\ hreq.response # AnswerToUncached

\* The client has made the same request twice and has both answers; nothing
\* was written to the table in between.
AnsweredTwice == hreq.hpc = "done" /\ prev.hpc = "done"

\* No step of city_weather changes the table.
C18_ReadOnly == hreq' # hreq => cities' = cities

\* A request for the hour the series starts at, on the hour, is answered with
\* the first value of every requested parameter.
C18_StartHour ==
    (Served /\ hreq.time = <<ServedUpdateHour, 0>>)
        => \A p \in hreq.include : hreq.response.data[p] = ServedHourly[p][1]

CurrentFinished == cur.cpc \in {"returned", "raised"}

\* C19: fetch_current makes one request and never a second one; a 4xx or 5xx
\* response ends it with OpenMeteoUnnacessableError, and it returns a snapshot
\* only for a response that is not an error.
C19_SingleAttempt ==
    /\ cur.cpc = "request" => cur.requests = 0
    /\ CurrentFinished
          => /\ cur.requests = 1
             /\ cur.outcome \in {"client_error", "server_error"}
                   => cur.cpc = "raised" /\ cur.error = "OpenMeteoUnnacessableError"
             /\ cur.cpc = "returned" => cur.outcome = "ok"

\* The one request was answered with a 5xx and fetch_current has raised.
C19_Witness ==
    /\ cur.cpc = "raised"
    /\ cur.outcome = "server_error"
    /\ cur.requests = 1
    /\ cur.error = "OpenMeteoUnnacessableError"

\* ------------------------------------------------------ cancellation claim
\* bg_task.cancel() has been called and delivered.
CancelDelivered == pc = "cancelled" \/ exc = "CancelledError"

\* The cancelled task takes no further step, and the table stays as it is.
C16_NoStepAfterCancel == CancelDelivered => (pc' = pc /\ cities' = cities)

\* Every row of a page that was committed in the cycle that was cancelled
\* holds the series of that cycle.
C16_PagesKept ==
    pc = "cancelled"
        => \A k \in 1..Len(pageResult) :
              pageResult[k] = "ok"
                 => \A i \in PageRows(snapshot, k) : FetchedIn(cities[i].forecast, cycle)

\* C16: once the refresh task is cancelled, in any of its awaits, it takes no
\* further step and so writes nothing more to the table, and the rows of
\* every page it had committed before keep the series written to them.
C16_Cancellation == [][C16_NoStepAfterCancel]_vars /\ []C16_PagesKept

\* The task was cancelled in a retry wait of its second cycle, and the first
\* row still holds the series written in the first cycle.
C16_Witness ==
    /\ pc = "cancelled"
    /\ cycle = 2
    /\ fpc = "backoff"
    /\ Len(cities) > 0
    /\ FetchedIn(cities[1].forecast, 1)

\* ------------------------------------------------------- concurrency claims
\* A read is in progress.
Reading == hreq.hpc \in {"execute", "fetchone"}

RowsOf(c) == {i \in 1..Len(cities) : cities[i].lat = CityLat(c) /\ cities[i].lon = CityLon(c)}

\* C15: a registration whose initial fetch ended in OpenMeteoUnnacessableError
\* does not fail for it: it goes on to the INSERT, and once it has returned
\* the city is in the table, in one row, without a series, and
\* get_forecast_json gives None for its name.
C15_RegisteredWithoutSeries ==
    \A p \in DOMAIN regs :
        regs[p].fetch = "unavailable"
            => /\ regs[p].rpc \in {"insert", "commit", "returned_new", "raised"}
               /\ regs[p].rpc = "raised" => regs[p].error = "IntegrityError"
               /\ regs[p].rpc = "returned_new"
                     => /\ Cardinality(RowsOf(regs[p].c)) = 1
                        /\ \A i \in RowsOf(regs[p].c) :
                              cities[i].id = regs[p].id /\ cities[i].forecast = NoForecast
                        /\ GetForecastJson(FetchOne(cities, CityName(regs[p].c)))
                              = NoForecast

\* A caller has registered its city after three requests that were answered
\* with an error status.
C15_Witness ==
    \E p \in DOMAIN regs :
        /\ regs[p].rpc = "returned_new"
        /\ regs[p].fetch = "unavailable"
        /\ regs[p].attempt = Retries - 1
        /\ GetForecastJson(FetchOne(cities, CityName(regs[p].c))) = NoForecast

\* The callers registered cities that differ from one another.
PairwiseDistinct ==
    \A p, q \in DOMAIN regs : p # q => regs[p].c # regs[q].c
AllEnded ==
    \A p \in DOMAIN regs : regs[p].rpc \in {"returned_new", "returned_existing", "raised"}

\* C20: when the callers register cities that differ from one another, no
\* registration ends in an exception, whatever the order of their steps, and
\* once all have ended every one of the cities is in the table in exactly one
\* row.
C20_ConcurrentRegistrations ==
    (regs # <<>> /\ PairwiseDistinct)
        => /\ \A p \in DOMAIN regs : regs[p].rpc # "raised"
           /\ AllEnded => \A p \in DOMAIN regs : Cardinality(RowsOf(regs[p].c)) = 1

\* The same, for the registrations of which no request met a connection
\* failure.
RegistrationsWithoutConnectError ==
    (regs # <<>> /\ PairwiseDistinct)
        => /\ \A p \in DOMAIN regs :
                 regs[p].rpc = "raised" => regs[p].error = "ConnectError"
           /\ (AllEnded /\ \A p \in DOMAIN regs : regs[p].rpc # "raised")
                 => /\ Len(cities) = Cardinality(DOMAIN regs)
                    /\ \A p \in DOMAIN regs : Cardinality(RowsOf(regs[p].c)) = 1

\* ------------------------------------------------ refresh_forecasts claims
\* The series a row holds was fetched for the row's own coordinates.
OwnSeries(row) ==
    row.forecast.kind = "object"
        => row.forecast.latitude = row.lat /\ row.forecast.longitude = row.lon

\* C21: every series in the table is the one the upstream returned for the
\* coordinates of the row that holds it, after every UPDATE of every page: no
\* row receives the series fetched for the coordinates of another row.
C21_ResultToOwnLocation ==
    \A i \in 1..Len(cities) : OwnSeries(cities[i])

\* A page of two rows was fetched and committed in the first cycle; each row
\* holds the series of this cycle for its own coordinates.
C21_Witness ==
    /\ cycle = 1
    /\ pageResult = <<"ok">>
    /\ Len(forecasts) = 2
    /\ \A i \in 1..2 :
          /\ FetchedIn(cities[i].forecast, 1)
          /\ cities[i].forecast.latitude = CityLat(i)
          /\ cities[i].forecast.longitude = CityLon(i)

\* The rows of the page in hand hold what they held when the cycle's SELECT
\* ran.
PageUntouched ==
    \A i \in 1..Len(cities) :
        (\E j \in 1..Len(ids) : ids[j] = cities[i].id)
            => cities[i].forecast = snapshot[i].forecast

\* C22: when fetch_forecasts has returned, for a page, a list whose length is
\* not the number of coordinates of the page, no row of the page is written.
C22_MismatchedPageSkipped ==
    (pc \in {"update", "commit"} /\ Len(forecasts) # Len(ids)) => PageUntouched

\* The pages of the cycle's SELECT that come after the page the cycle ended
\* in: pageResult has one entry per page that was attempted before it.
RowsAfterFailedPage ==
    {i \in 1..Len(snapshot) : (i - 1) \div PageSize > Len(pageResult)}

\* C23: when an UPDATE or a commit of a page fails and the upstream answers
\* every request, the rows of the pages after that page are still fetched and
\* written in the same cycle.
C23_StorageFailureIsolated ==
    (pc = "end_cycle" /\ exc = "OperationalError" /\ ~flaky /\ outage = {})
        => \A i \in RowsAfterFailedPage : FetchedIn(cities[i].forecast, cycle)

\* ------------------------------------------------- time resolution claims
\* The hour of the day of the values in the response.
HourServed(p) == HourOf(hreq.response.data[p].at)

\* The requested time is strictly after the reading of the clock.
StrictlyAfterNow ==
    \/ hreq.time[1] > hreq.now[1]
    \/ hreq.time[1] = hreq.now[1] /\ hreq.time[2] > hreq.now[2]

\* C24: a request for a city with a cached series is answered with the values
\* of one hour of the day, in 0 .. 23: the requested hour when the requested
\* time is not after now, or is after now with a minute of at most 30, and
\* the hour after the requested hour, modulo 24, when the requested time is
\* after now with a minute above 30.
C24_RoundingPolicy ==
    (hreq.hpc = "done" /\ RowCached)
        => /\ hreq.response.status = 200
           /\ \A p \in hreq.include :
                 /\ HourServed(p) \in 0..23
                 /\ HourServed(p) = ServedRequestedHour
                 /\ (StrictlyAfterNow /\ hreq.time[2] <= 30) => HourServed(p) = hreq.time[1]
                 /\ (StrictlyAfterNow /\ hreq.time[2] > 30)
                       => HourServed(p) = (hreq.time[1] + 1) % 24
                 /\ ~StrictlyAfterNow => HourServed(p) = hreq.time[1]

\* 23:31 is asked for at 12:15, which is before it: the values of hour 0 are
\* served.
C24_Witness ==
    /\ Served
    /\ hreq.time = <<23, 31>>
    /\ hreq.now = <<12, 15>>
    /\ \A p \in hreq.include : HourServed(p) = 0

\* C25: when the requested hour is not before the hour the series starts at,
\* the values served are those requested_hour - update_hour hours after the
\* start; a series that starts at 10 h serves its first values for 10:00
\* asked at 10:05, and the values 4 hours after the start for 14:00 asked at
\* 09:00.
C25_IndexWithoutRollover ==
    Served
        => /\ ServedRequestedHour >= ServedUpdateHour
                 => \A p \in hreq.include :
                       hreq.response.data[p] =
                           ValueAfter(ServedHourly, p,
                                      ServedRequestedHour - ServedUpdateHour)
           /\ (clock[1] = 10 /\ hreq.time = <<10, 0>> /\ hreq.now = <<10, 5>>)
                 => \A p \in hreq.include :
                       hreq.response.data[p] = ValueAfter(ServedHourly, p, 0)
           /\ (clock[1] = 10 /\ hreq.time = <<14, 0>> /\ hreq.now = <<9, 0>>)
                 => \A p \in hreq.include :
                       hreq.response.data[p] = ValueAfter(ServedHourly, p, 4)

\* The series starts at 10 h and 14:00 is asked for at 09:00: index 4.
C25_Witness ==
    /\ Served
    /\ clock[1] = 10
    /\ hreq.time = <<14, 0>>
    /\ hreq.now = <<9, 0>>
    /\ ServedIndex = 4
    /\ \A p \in hreq.include : hreq.response.data[p] = ValueAfter(ServedHourly, p, 4)

\* ----------------------------------------------------- recoverability claim
AllCached == \A i \in 1..Len(cities) : cities[i].forecast # NoForecast

\* The upstream answers every request of the run with the forecasts asked for.
UpstreamAnswers == ~flaky /\ outage = {} /\ ~malformed

OnePayload(row) ==
    \E s \in 0..cycle : row.forecast = ForecastObject(row.lat, row.lon, s)

\* A write puts the forecast of the current fetch, whole, in one row and
\* leaves the other rows as they are.
WriteReplaces ==
    cities' # cities
        => \E j \in 1..Len(cities) :
              /\ cities'[j].forecast = forecasts[wi]
              /\ cities'[j].forecast = ForecastObject(cities[j].lat, cities[j].lon, cycle)
              /\ cities' = [cities EXCEPT ![j].forecast = forecasts[wi]]

\* C27: the series a row holds is always one complete answer of the upstream
\* for that row, never a mixture of two answers, and every write replaces the
\* series of its row by the answer just fetched (the last write wins).
C27_WriteReplacesInFull ==
    /\ [](\A i \in 1..Len(cities) : cities[i].forecast # NoForecast => OnePayload(cities[i]))
    /\ [][WriteReplaces]_vars

\* A row that held a series at the start has been overwritten in two cycles.
C27_Witness ==
    /\ cycle = 2
    /\ Len(cities) >= 1
    /\ snapshot # <<>>
    /\ FetchedIn(snapshot[1].forecast, 1)
    /\ FetchedIn(cities[1].forecast, 2)
    /\ pc = "commit"

\* The fetch of the page in ids has ended in an exception: the page is skipped
\* or the cycle is over.
PageFetchFailed ==
    \/ pc = "fetchmany" /\ pageResult # <<>> /\ pageResult[Len(pageResult)] = "unavailable"
    \/ pc = "end_cycle" /\ fpc \in {"raised", "returned_none"}

\* No step takes a series away from a row that holds one.
NeverRemoved ==
    /\ Len(cities') = Len(cities)
    /\ \A i \in 1..Len(cities) :
          cities[i].forecast.kind = "object" => cities'[i].forecast.kind = "object"

\* C28: no step of the refresh task, a failed fetch or a cycle that ends in
\* an exception included, takes a series away from a row that holds one, and
\* when the fetch of a page fails every row of the page holds the series it
\* held when the cycle began, which is the one it held before the page.
C28_FailureKeepsCache ==
    /\ [][NeverRemoved]_vars
    /\ [](PageFetchFailed => PageUntouched)

\* Page 1 has been skipped after three 5xx answers and its rows, cached
\* before, hold what they held.
C28_Witness ==
    /\ pc = "fetchmany"
    /\ pageResult = <<"unavailable">>
    /\ requests = 3
    /\ Len(ids) = 2
    /\ \A i \in 1..2 : cities[i].forecast.kind = "object"
    /\ PageUntouched

\* ------------------------------------------------ shared connection claims
\* Two rows of one page of the table, both older than the row of caller p,
\* hold series of different fetches: one has been refreshed, the other not.
PartialPage(table, p) ==
    \E i, j \in 1..Len(table) :
        /\ table[i].id < regs[p].id
        /\ table[j].id < regs[p].id
        /\ (i - 1) \div PageSize = (j - 1) \div PageSize
        /\ table[i].forecast.kind = "object"
        /\ table[j].forecast.kind = "object"
        /\ table[i].forecast.stamp # table[j].forecast.stamp

\* C29: the rows of a fetched page become durable together: no commit on the
\* shared connection, that of a registration included, makes durable a table
\* in which some rows of a page hold the series just fetched and the other
\* rows of the page the series of before.
C29_PageDurableTogether ==
    \A p \in 1..Len(regs) : ~PartialPage(regs[p].committed, p)

\* ------------------------------------------------------ registration claims
\* Caller p's SELECT runs, and tells whether the city is in the table.
CheckFindsTheCity ==
    \A p \in 1..Len(regs) :
        (regs[p].rpc = "check" /\ regs'[p].rpc = "fetchone")
            => (regs'[p].existing <=> RowsOf(regs[p].c) # {})

\* Caller p found its city in the table: it returns the id of the one row of
\* the city, which is not the id it brought, without a request to the
\* upstream and without a row of its own.
ReturnsTheExisting(p) ==
    /\ regs[p].rpc \in {"fetchone", "returned_existing"}
    /\ regs[p].fetch = "none"
    /\ regs[p].attempt = 0
    /\ Cardinality(RowsOf(regs[p].c)) = 1
    /\ \A i \in 1..Len(cities) : cities[i].id # regs[p].id
    /\ regs[p].rpc = "returned_existing"
          => \A i \in RowsOf(regs[p].c) : regs[p].returned = cities[i].id

NoSharedCoordinates ==
    \A i, j \in 1..Len(cities) :
        (cities[i].lat = cities[j].lat /\ cities[i].lon = cities[j].lon) => i = j

\* C30: a registration of a city that is in the table, under the same name
\* and coordinates, returns the id of the existing row, makes no request to
\* the upstream and adds no row; and no two rows of the table ever have the
\* same latitude and longitude.
C30_IdempotentRegistration ==
    /\ [][CheckFindsTheCity]_vars
    /\ [](\A p \in 1..Len(regs) : regs[p].existing => ReturnsTheExisting(p))
    /\ []NoSharedCoordinates

\* Caller 1 has registered a city and caller 2, posting the same city after
\* it, has been given caller 1's id; the table has the one row.
C30_Witness ==
    /\ Len(regs) >= 2
    /\ regs[1].rpc = "returned_new"
    /\ regs[2].rpc = "returned_existing"
    /\ regs[2].c = regs[1].c
    /\ regs[2].returned = regs[1].id
    /\ regs[2].fetch = "none"
    /\ Len(cities) = 1

====
